---- MODULE Spec2Model ----
(***************************************************************************)
(* Model of takak2166/split (main.go): parseByteSize, genFileName and the  *)
(* three Splitter strategies splitByByte, splitByLine and splitByFile.     *)
(*                                                                         *)
(* uint64 values are little-endian sequences of base-256 limbs without     *)
(* high zero limbs (the empty sequence is 0), so that 64-bit wrap-around   *)
(* and float64 rounding are computed at the width the program uses.        *)
(***************************************************************************)
EXTENDS Integers, Sequences, FiniteSets, TLC

VARIABLES
    \* ---- a call of parseByteSize ----
    pDigits,      \* matches[1]: the decimal digits of the input string
    pUnit,        \* matches[2]: the unit text of the input string
    pPc,          \* "idle" | "call" | "done"
    pResult,      \* the returned uint64
    pErr,         \* the returned error: "nil" | "format" | "range" | "overflow"
    \* ---- two calls of genFileName with the same prefix, count and policy ----
    gPrefix,      \* prefix
    gIndexA,      \* index of the first call
    gIndexB,      \* index of the second call
    gFileCount,   \* fileCount
    gSplitType,   \* splitType
    gPc,          \* "idle" | "call" | "done"
    gResA,        \* [name, err] returned by the first call
    gResB,        \* [name, err] returned by the second call
    \* ---- the build ----
    outOfRange,   \* what uint64(f) yields in this build for f >= 2^64
    \* ---- a run of Splitter.Split ----
    splitType,    \* Splitter.splitType
    count,        \* Splitter.count
    outputPrefix, \* Splitter.outputPrefix
    input,        \* the bytes Splitter.reader delivers
    rpos,         \* how many of them have been read
    pc,           \* the statement the run is at; "idle" and "done" outside
    ix,           \* the loop variable i of splitByByte and splitByFile
    fileIndex,    \* splitByLine
    lineCount,    \* splitByLine
    chunk,        \* buffer[:n], or line in splitByLine
    fileOff,      \* read offset of fileBuf in splitByFile
    byteCount,    \* splitByFile
    byteRemain,   \* splitByFile
    bufLen,       \* len(buffer) in splitByFile
    outputFile,   \* the handle in outputFile: its position in created, 0 for nil
    fs,           \* the file system: name -> content of the files created
    created,      \* [index, name] of every file created, in order
    calls,        \* the indices createOutputFile was called with, in order
    openH,        \* the handles that are open
    err,          \* what Split returned: "nil", "read", "create", "write",
                  \* "invalid index"
    failed,       \* the operation the environment made fail: "none", "read",
                  \* "create", "write"
    callIndex,    \* the argument of the pending createOutputFile call
    returnTo      \* where its caller goes on

pvars == <<pDigits, pUnit, pPc, pResult, pErr>>
gvars == <<gPrefix, gIndexA, gIndexB, gFileCount, gSplitType, gPc, gResA, gResB>>
cfgvars == <<splitType, count, outputPrefix, input>>
svars == <<cfgvars, rpos, pc, ix, fileIndex, lineCount, chunk, fileOff,
           byteCount, byteRemain, bufLen, outputFile, fs, created, calls,
           openH, err, failed, callIndex, returnTo>>

vars == <<pvars, gvars, outOfRange, svars>>

(***************************************************************************)
(* Unsigned integers of arbitrary size                                     *)
(***************************************************************************)
Min(a, b) == IF a < b THEN a ELSE b

RECURSIVE Norm(_)
Norm(x) ==
    IF x = <<>> THEN <<>>
    ELSE IF x[Len(x)] = 0 THEN Norm(SubSeq(x, 1, Len(x) - 1))
    ELSE x

RECURSIVE FromNat(_)
FromNat(n) == IF n = 0 THEN <<>> ELSE <<n % 256>> \o FromNat(n \div 256)

Limb(x, k) == IF k <= Len(x) THEN x[k] ELSE 0

RECURSIVE AddFrom(_, _, _, _)
AddFrom(x, y, k, c) ==
    IF k > Len(x) /\ k > Len(y)
    THEN (IF c = 0 THEN <<>> ELSE <<c>>)
    ELSE LET s == Limb(x, k) + Limb(y, k) + c
         IN  <<s % 256>> \o AddFrom(x, y, k + 1, s \div 256)

Add(x, y) == AddFrom(x, y, 1, 0)

\* x - y for x >= y
RECURSIVE SubFrom(_, _, _, _)
SubFrom(x, y, k, b) ==
    IF k > Len(x) THEN <<>>
    ELSE LET d == Limb(x, k) - Limb(y, k) - b
         IN  <<(d + 256) % 256>> \o SubFrom(x, y, k + 1, IF d < 0 THEN 1 ELSE 0)

Sub(x, y) == Norm(SubFrom(x, y, 1, 0))

RECURSIVE CmpFrom(_, _, _)
CmpFrom(x, y, k) ==
    IF k = 0 THEN 0
    ELSE IF x[k] < y[k] THEN -1
    ELSE IF x[k] > y[k] THEN 1
    ELSE CmpFrom(x, y, k - 1)

\* -1, 0, 1 as x < y, x = y, x > y
Cmp(x, y) ==
    IF Len(x) < Len(y) THEN -1
    ELSE IF Len(x) > Len(y) THEN 1
    ELSE CmpFrom(x, y, Len(x))

Lt(x, y) == Cmp(x, y) < 0
Le(x, y) == Cmp(x, y) <= 0

\* x * m for a machine-sized m
RECURSIVE MulSmallFrom(_, _, _, _)
MulSmallFrom(x, m, k, c) ==
    IF k > Len(x) THEN FromNat(c)
    ELSE LET p == x[k] * m + c
         IN  <<p % 256>> \o MulSmallFrom(x, m, k + 1, p \div 256)

MulSmall(x, m) == Norm(MulSmallFrom(x, m, 1, 0))

ShiftLimb(x) == IF x = <<>> THEN <<>> ELSE <<0>> \o x

RECURSIVE Mul(_, _)
Mul(x, y) ==
    IF y = <<>> THEN <<>>
    ELSE Add(MulSmall(x, y[1]), ShiftLimb(Mul(x, Tail(y))))

\* quotient and remainder of x by a machine-sized d > 0
RECURSIVE DivSmallFrom(_, _, _, _)
DivSmallFrom(x, d, k, r) ==
    IF k = 0 THEN [q |-> <<>>, r |-> r]
    ELSE LET cur  == r * 256 + x[k]
             rest == DivSmallFrom(x, d, k - 1, cur % d)
         IN  [q |-> rest.q \o <<cur \div d>>, r |-> rest.r]

DivSmall(x, d) == Norm(DivSmallFrom(x, d, Len(x), 0).q)
ModSmall(x, d) == DivSmallFrom(x, d, Len(x), 0).r

\* largest q in 0..255 with q * y <= r
RECURSIVE QDigit(_, _, _, _)
QDigit(r, y, q, bit) ==
    IF bit = 0 THEN q
    ELSE IF Le(MulSmall(y, q + bit), r)
         THEN QDigit(r, y, q + bit, bit \div 2)
         ELSE QDigit(r, y, q, bit \div 2)

\* long division, most significant limb first: r is the running remainder,
\* q the quotient limbs found so far
RECURSIVE DivFrom(_, _, _, _, _)
DivFrom(x, y, k, r, q) ==
    IF k = 0 \/ Len(r) > Len(y) THEN q
    ELSE LET cur == Norm(<<x[k]>> \o r)
             qd  == QDigit(cur, y, 0, 128)
         IN  DivFrom(x, y, k - 1, Sub(cur, MulSmall(y, qd)), <<qd>> \o q)

\* floor(x / y) for y > 0
Div(x, y) == Norm(DivFrom(x, y, Len(x), <<>>, <<>>))

RECURSIVE PowFrom(_, _, _)
PowFrom(b, e, acc) ==
    IF e = 0 \/ acc = <<>> THEN acc ELSE PowFrom(b, e - 1, MulSmall(acc, b))

Pow(b, e) == PowFrom(b, e, <<1>>)

RECURSIVE Zeros(_)
Zeros(k) == IF k = 0 THEN <<>> ELSE <<0>> \o Zeros(k - 1)

Pow2(k) == Zeros(k \div 8) \o <<2 ^ (k % 8)>>

BitsOf(b) ==
    CASE b >= 128 -> 8 [] b >= 64 -> 7 [] b >= 32 -> 6 [] b >= 16 -> 5
      [] b >= 8 -> 4 [] b >= 4 -> 3 [] b >= 2 -> 2 [] b >= 1 -> 1
      [] OTHER -> 0

\* the number of significant bits of x
BitLen(x) == IF x = <<>> THEN 0 ELSE 8 * (Len(x) - 1) + BitsOf(x[Len(x)])

\* the low 64 bits: what a uint64 keeps of a result
Wrap64(x) == Norm(SubSeq(x, 1, Min(Len(x), 8)))

MaxUint64 == <<255, 255, 255, 255, 255, 255, 255, 255>>

(***************************************************************************)
(* parseByteSize                                                           *)
(***************************************************************************)
\* the strings the group ([KMGTPkm]i?B?) of the pattern matches
RegexUnits ==
    { l \o i \o b : l \in {"K", "M", "G", "T", "P", "k", "m"},
                    i \in {"", "i"}, b \in {"", "B"} }

\* ^(\d+)([KMGTPkm]i?B?)?$
RegexMatches(digits, unit) ==
    /\ Len(digits) >= 1
    /\ unit \in RegexUnits \cup {""}

\* strconv.ParseUint(matches[1], 10, 64): the value, and a range error
\* when it does not fit in 64 bits
RECURSIVE DecFrom(_, _, _)
DecFrom(digits, k, acc) ==
    IF k > Len(digits) \/ Len(acc) > 16 THEN acc
    ELSE DecFrom(digits, k + 1, Add(MulSmall(acc, 10), FromNat(digits[k])))

DecValue(digits) == DecFrom(digits, 1, <<>>)

ParseUint(digits) ==
    LET v == DecValue(digits)
    IN  IF Le(v, MaxUint64) THEN [val |-> v, err |-> "nil"]
        ELSE [val |-> MaxUint64, err |-> "range"]

\* the switch on unit: the value of unitVal, <<>> for the rejected units
UnitValOf(unit) ==
    CASE unit \in {"KB", "kB"}                -> Pow(1000, 1)
      [] unit \in {"MB", "mB"}                -> Pow(1000, 2)
      [] unit = "GB"                          -> Pow(1000, 3)
      [] unit = "TB"                          -> Pow(1000, 4)
      [] unit = "PB"                          -> Pow(1000, 5)
      [] unit \in {"K", "k", "KiB", "kiB"}    -> Pow(1024, 1)
      [] unit \in {"M", "m", "MiB", "miB"}    -> Pow(1024, 2)
      [] unit \in {"G", "GiB"}                -> Pow(1024, 3)
      [] unit \in {"T", "TiB"}                -> Pow(1024, 4)
      [] unit \in {"P", "PiB"}                -> Pow(1024, 5)
      [] unit \in {"Ki", "Mi", "Gi", "Ti", "Pi", "ki", "mi"} -> <<>>
      [] OTHER                                -> <<1>>

\* an overflow test that compares the product with the operand
OverflowedByCompare(result, unitVal, size) == Lt(result, size)

\* result/unitVal != size
Overflowed(result, unitVal, size) == Div(result, unitVal) # size

parseByteSize(digits, unit) ==
    IF ~RegexMatches(digits, unit) THEN [val |-> <<>>, err |-> "format"]
    ELSE LET parsed == ParseUint(digits) IN
         IF parsed.err # "nil" THEN [val |-> <<>>, err |-> parsed.err]
         ELSE LET size    == parsed.val
                  unitVal == UnitValOf(unit)
                  result  == Wrap64(Mul(size, unitVal))
              IN  IF unitVal = <<>> THEN [val |-> <<>>, err |-> "format"]
                  ELSE IF Overflowed(result, unitVal, size)
                       THEN [val |-> <<>>, err |-> "overflow"]
                       ELSE [val |-> result, err |-> "nil"]

(***************************************************************************)
(* float64: [m, e] stands for m * 2^e with 2^52 <= m < 2^53, or for 0 when *)
(* m is 0. Results are rounded to nearest, ties to even, as the hardware   *)
(* does.                                                                   *)
(***************************************************************************)
Two52 == Pow2(52)
Two53 == Pow2(53)
Two63 == Pow2(63)
Two64 == Pow2(64)

\* the float64 nearest to (n + f) * 2^e, where 0 <= f < 1 and sticky says
\* whether f > 0; n has more than 53 bits whenever sticky holds, and fewer
\* than 74 bits
RoundNearestEven(n, e, sticky) ==
    LET bl == BitLen(n) IN
    IF bl = 0 THEN [m |-> <<>>, e |-> 0]
    ELSE IF bl <= 53
    THEN [m |-> Mul(n, Pow2(53 - bl)), e |-> e - (53 - bl)]
    ELSE LET s   == bl - 53
             q   == DivSmall(n, 2 ^ s)
             rem == ModSmall(n, 2 ^ s)
             up  == \/ rem > 2 ^ (s - 1)
                    \/ rem = 2 ^ (s - 1) /\ (sticky \/ ModSmall(q, 2) = 1)
             r   == IF up THEN Add(q, <<1>>) ELSE q
         IN  IF r = Two53 THEN [m |-> Two52, e |-> e + s + 1]
                          ELSE [m |-> r, e |-> e + s]

\* float64(x) for a uint64 x
Float64(x) == RoundNearestEven(x, 0, FALSE)

\* f / 26
FDiv26(f) ==
    IF f.m = <<>> THEN f
    ELSE LET n == MulSmall(f.m, 256)
         IN  RoundNearestEven(DivSmall(n, 26), f.e - 8, ModSmall(n, 26) # 0)

\* f >= 1 and f == 1
FGe1(f) == f.m # <<>> /\ f.e >= -52
FEq1(f) == f.m = Two52 /\ f.e = -52

\* math.Pow(26, float64(i)): 26^i = 2^i * 13^i has at most 52 significant
\* bits for i <= 14, so the result is exact
MathPow26(i) == RoundNearestEven(Pow(26, i), 0, FALSE)

\* the integer part of a float64 >= 1
FloatTrunc(f) ==
    IF f.e >= 0 THEN Mul(f.m, Pow(2, f.e)) ELSE Div(f.m, Pow(2, 0 - f.e))

\* uint64(f): the integer part when it fits; otherwise the result depends on
\* the implementation, and oor is the value this build produces
Uint64OfFloat(f, oor) ==
    LET t == FloatTrunc(f)
    IN  IF Lt(t, Two64) THEN t ELSE oor

\* uint64 subtraction and addition
Sub64(x, y) == IF Le(y, x) THEN Sub(x, y) ELSE Sub(Add(x, Two64), y)
Add64(x, y) == Wrap64(Add(x, y))

(***************************************************************************)
(* genFileName                                                             *)
(* A name is a sequence of one-character strings.                          *)
(***************************************************************************)
Alphabet ==
    << "a", "b", "c", "d", "e", "f", "g", "h", "i", "j", "k", "l", "m",
       "n", "o", "p", "q", "r", "s", "t", "u", "v", "w", "x", "y", "z" >>

\* fmt.Sprintf("%c", 'a'+k) for k = index % 26
Letter(k) == Alphabet[k + 1]

RECURSIVE Repeat(_, _)
Repeat(c, k) == IF k = 0 THEN <<>> ELSE <<c>> \o Repeat(c, k - 1)

\* uint64(math.Pow(26, float64(i)))
Pow26U(i, oor) == Uint64OfFloat(MathPow26(i), oor)

\* the condition of the if inside the for loop over i
InWindow(i, index, oor) ==
    /\ Le(Sub64(Pow26U(i, oor), FromNat(26)), index)
    /\ Lt(index, Sub64(Pow26U(i + 1, oor), FromNat(26)))

\* the first i in 1..13 whose window holds index, 0 when the loop ends
\* without a break
RECURSIVE FindWindow(_, _, _)
FindWindow(i, index, oor) ==
    IF i >= 14 THEN 0
    ELSE IF InWindow(i, index, oor) THEN i
    ELSE FindWindow(i + 1, index, oor)

\* the final loop: for fileCountF >= 1 { ... }
RECURSIVE RenderLoop(_, _, _)
RenderLoop(fileCountF, index, tmp) ==
    IF ~FGe1(fileCountF) THEN tmp
    ELSE LET t == <<Letter(ModSmall(index, 26))>> \o tmp
             q == FDiv26(fileCountF)
         IN  IF FEq1(q) THEN t
             ELSE RenderLoop(q, DivSmall(index, 26), t)

genFileName(prefix, index, fileCount, sType, oor) ==
    IF sType = "ByFiles" /\ Lt(fileCount, Add64(index, <<1>>))
    THEN [name |-> <<>>, err |-> "invalid index"]
    ELSE
    LET prefix1 == IF prefix = <<>> THEN <<"x">> ELSE prefix
        i       == IF sType # "ByFiles"
                   THEN FindWindow(1, index, oor) ELSE 0
        pow     == Pow26U(i, oor)
        base    == Sub64(pow, FromNat(26))
        index1  == IF i > 0 THEN Sub64(index, base) ELSE index
        count1  == IF sType = "ByFiles" THEN fileCount
                   ELSE IF i > 0 THEN Add64(pow, <<1>>)
                   ELSE FromNat(26)
        prefix2 == IF i > 0 THEN prefix1 \o Repeat("z", i - 1) ELSE prefix1
        short   == Lt(count1, FromNat(27))
        tmp     == IF short THEN <<Letter(ModSmall(index1, 26))>> ELSE <<>>
        index2  == IF short THEN DivSmall(index1, 26) ELSE index1
    IN  [name |-> prefix2 \o RenderLoop(Float64(count1), index2, tmp),
         err  |-> "nil"]

(***************************************************************************)
(* Specification of parseByteSize calls                                    *)
(***************************************************************************)
\* how far around each overflow threshold the magnitudes are taken
ParseDelta == 1

RECURSIVE ToDecFrom(_, _)
ToDecFrom(x, acc) ==
    IF x = <<>> THEN acc
    ELSE ToDecFrom(DivSmall(x, 10), <<ModSmall(x, 10)>> \o acc)

\* the decimal digits of x
ToDec(x) == IF x = <<>> THEN <<0>> ELSE ToDecFrom(x, <<>>)

ParseMultipliers ==
    {Pow(1000, k) : k \in 0..5} \cup {Pow(1024, k) : k \in 1..5}

\* magnitudes next to the largest one each multiplier can take, small ones,
\* and ones that do not fit in 64 bits
ParseMagnitudes ==
    {FromNat(k) : k \in 0..ParseDelta}
    \cup {Add(Div(MaxUint64, u), FromNat(d)) : u \in ParseMultipliers,
                                                d \in 0..(ParseDelta + 1)}
    \cup {Sub(Div(MaxUint64, u), FromNat(d)) : u \in ParseMultipliers,
                                                d \in 1..ParseDelta}

ParseDigits == {ToDec(v) : v \in ParseMagnitudes} \cup {<<>>, <<0, 0, 7>>}

ParseUnits == RegexUnits \cup {"", "B", "g", "KA"}

GenIdle ==
    /\ gPrefix = <<>> /\ gIndexA = <<>> /\ gIndexB = <<>>
    /\ gFileCount = <<>> /\ gSplitType = "ByBytes"
    /\ gPc = "idle"
    /\ gResA = [name |-> <<>>, err |-> "nil"]
    /\ gResB = [name |-> <<>>, err |-> "nil"]

SplitIdle ==
    /\ splitType = "ByBytes" /\ count = 1 /\ outputPrefix = <<>>
    /\ input = <<>> /\ rpos = 0 /\ pc = "idle" /\ ix = 0 /\ fileIndex = 0
    /\ lineCount = 0 /\ chunk = <<>> /\ fileOff = 0 /\ byteCount = 0
    /\ byteRemain = 0 /\ bufLen = 0 /\ outputFile = 0 /\ fs = <<>>
    /\ created = <<>> /\ calls = <<>> /\ openH = {} /\ err = "nil"
    /\ failed = "none" /\ callIndex = 0 /\ returnTo = "idle"

ParseIdle ==
    /\ pDigits = <<>> /\ pUnit = "" /\ pPc = "idle"
    /\ pResult = <<>> /\ pErr = "nil"

ParseInit ==
    /\ pDigits \in ParseDigits
    /\ pUnit \in ParseUnits
    /\ pPc = "call"
    /\ pResult = <<>>
    /\ pErr = "nil"
    /\ GenIdle
    /\ outOfRange = Two63
    /\ SplitIdle

ParseCall ==
    /\ pPc = "call"
    /\ LET r == parseByteSize(pDigits, pUnit)
       IN  pResult' = r.val /\ pErr' = r.err
    /\ pPc' = "done"
    /\ UNCHANGED <<pDigits, pUnit, gvars, outOfRange, svars>>

ParseNext == ParseCall

SpecParse == ParseInit /\ [][ParseNext]_vars

(***************************************************************************)
(* Specification of genFileName calls                                      *)
(***************************************************************************)
\* the widths 1..MaxSmallWidth have their thresholds 26^i - 26 among the
\* indices tried
MaxSmallWidth == 3

GenIndices ==
    {FromNat(0), FromNat(25), FromNat(26)}
    \cup {Sub(Pow(26, i), FromNat(26 + d)) : i \in 2..MaxSmallWidth, d \in 0..1}
    \cup {Sub(Pow(26, i), FromNat(26 + d)) : i \in {12}, d \in 0..1}
    \cup {Pow(26, 12), Sub(Pow(26, 13), FromNat(26)),
          Sub(Two63, FromNat(26)), MaxUint64}

GenCounts ==
    {FromNat(0), FromNat(1), FromNat(26), FromNat(27), FromNat(676),
     FromNat(677), Add(Pow(26, 12), <<1>>), MaxUint64}

GenPrefixes == {<<>>, <<"p">>}

\* the results a build may give for a float64 that uint64 cannot hold
OutOfRangeResults == {Two63, MaxUint64}

GenInit ==
    /\ gPrefix \in GenPrefixes
    /\ gIndexA \in GenIndices
    /\ gIndexB \in {j \in GenIndices : Lt(gIndexA, j)}
    /\ \/ /\ gSplitType \in {"ByBytes", "ByLines"}
          /\ gFileCount \in {FromNat(0), FromNat(27)}
          /\ outOfRange \in OutOfRangeResults
       \/ /\ gSplitType = "ByFiles"
          /\ gFileCount \in GenCounts
          /\ outOfRange \in OutOfRangeResults
    /\ gPc = "call"
    /\ gResA = [name |-> <<>>, err |-> "nil"]
    /\ gResB = [name |-> <<>>, err |-> "nil"]
    /\ ParseIdle
    /\ SplitIdle

GenCall ==
    /\ gPc = "call"
    /\ gResA' = genFileName(gPrefix, gIndexA, gFileCount, gSplitType, outOfRange)
    /\ gResB' = genFileName(gPrefix, gIndexB, gFileCount, gSplitType, outOfRange)
    /\ gPc' = "done"
    /\ UNCHANGED <<gPrefix, gIndexA, gIndexB, gFileCount, gSplitType,
                   outOfRange, pvars, svars>>

GenNext == GenCall

SpecGen == GenInit /\ [][GenNext]_vars

(***************************************************************************)
(* Specification of Splitter.Split runs                                    *)
(***************************************************************************)
\* the longest input and the largest count tried
MaxLen == 4
MaxCount == 3

Bytes == {"\n", "a"}

Inputs == UNION {[1..n -> Bytes] : n \in 0..MaxLen}

SplitInit ==
    /\ splitType \in {"ByBytes", "ByLines", "ByFiles"}
    /\ count \in 1..MaxCount
    /\ outputPrefix = <<>>
    /\ input \in Inputs
    /\ outOfRange \in OutOfRangeResults
    /\ rpos = 0 /\ pc = "Split" /\ ix = 0 /\ fileIndex = 0
    /\ lineCount = 0 /\ chunk = <<>> /\ fileOff = 0 /\ byteCount = 0
    /\ byteRemain = 0 /\ bufLen = 0 /\ outputFile = 0 /\ fs = <<>>
    /\ created = <<>> /\ calls = <<>> /\ openH = {} /\ err = "nil"
    /\ failed = "none" /\ callIndex = 0 /\ returnTo = "idle"
    /\ ParseIdle
    /\ GenIdle

\* return e from a strategy: the deferred outputFile.Close() calls run
Return(e) ==
    /\ pc' = "done"
    /\ err' = e
    /\ openH' = {}

\* outputFile.Write(data) succeeds
WriteAll(data) ==
    fs' = [fs EXCEPT ![created[outputFile].name] = @ \o data]

\* outputFile.Write(data) fails after writing fewer bytes than asked; a
\* write of no bytes does not fail
WriteShort(data) ==
    /\ data # <<>>
    /\ failed' = "write"
    /\ \E k \in 0..(Len(data) - 1) :
          fs' = [fs EXCEPT ![created[outputFile].name] = @ \o SubSeq(data, 1, k)]

\* switch s.splitType
Split ==
    /\ pc = "Split"
    /\ pc' = CASE splitType = "ByBytes" -> "byByte_Read"
               [] splitType = "ByLines" -> "byLine_Create"
               [] splitType = "ByFiles" -> "byFile_Copy"
    /\ UNCHANGED <<pvars, gvars, outOfRange, cfgvars, rpos, ix, fileIndex,
                   lineCount, chunk, fileOff, byteCount, byteRemain, bufLen,
                   outputFile, fs, created, calls, openH, err, failed,
                   callIndex, returnTo>>

\* createOutputFile(callIndex) and the caller's check of its error: every
\* caller returns the error, or goes on at returnTo
createOutputFile ==
    /\ pc = "createOutputFile"
    /\ calls' = Append(calls, callIndex)
    /\ \E r \in {genFileName(outputPrefix, FromNat(callIndex),
                             FromNat(count), splitType, outOfRange)} :
           \/ /\ r.err # "nil"
              /\ outputFile' = 0
              /\ Return(r.err)
              /\ UNCHANGED <<fs, created, failed>>
           \/ /\ r.err = "nil"                      \* os.Create succeeds
              /\ created' = Append(created,
                                   [index |-> callIndex, name |-> r.name])
              /\ fs' = (r.name :> <<>>) @@ fs
              /\ outputFile' = Len(created) + 1
              /\ openH' = openH \cup {Len(created) + 1}
              /\ pc' = returnTo
              /\ UNCHANGED <<err, failed>>
           \/ /\ r.err = "nil"                      \* os.Create fails
              /\ outputFile' = 0
              /\ failed' = "create"
              /\ Return("create")
              /\ UNCHANGED <<fs, created>>
    /\ UNCHANGED <<pvars, gvars, outOfRange, cfgvars, rpos, ix, fileIndex,
                   lineCount, chunk, fileOff, byteCount, byteRemain, bufLen,
                   callIndex, returnTo>>

---------------------------------------------------------------------------
\* splitByByte: n, err := s.reader.Read(buffer), then the call
\* s.createOutputFile(i); the reader may deliver fewer bytes than len(buffer)
splitByByte_Read ==
    /\ pc = "byByte_Read"
    /\ \/ /\ rpos < Len(input)
          /\ \E n \in 1..Min(count, Len(input) - rpos) :
                /\ chunk' = SubSeq(input, rpos + 1, rpos + n)
                /\ rpos' = rpos + n
          /\ callIndex' = ix
          /\ returnTo' = "byByte_Write"
          /\ pc' = "createOutputFile"
          /\ UNCHANGED <<openH, err, failed>>
       \/ /\ rpos = Len(input)                      \* io.EOF: break
          /\ Return("nil")
          /\ UNCHANGED <<chunk, rpos, failed, callIndex, returnTo>>
       \/ /\ failed' = "read"                       \* another error
          /\ Return("read")
          /\ UNCHANGED <<chunk, rpos, callIndex, returnTo>>
    /\ UNCHANGED <<pvars, gvars, outOfRange, cfgvars, ix, fileIndex,
                   lineCount, fileOff, byteCount, byteRemain, bufLen,
                   outputFile, fs, created, calls>>

splitByByte_Write ==
    /\ pc = "byByte_Write"
    /\ \/ /\ WriteAll(chunk)
          /\ ix' = ix + 1
          /\ pc' = "byByte_Read"
          /\ UNCHANGED <<openH, err, failed>>
       \/ /\ WriteShort(chunk)
          /\ Return("write")
          /\ UNCHANGED ix
    /\ UNCHANGED <<pvars, gvars, outOfRange, cfgvars, rpos, fileIndex,
                   lineCount, chunk, fileOff, byteCount, byteRemain, bufLen,
                   outputFile, created, calls, callIndex, returnTo>>

---------------------------------------------------------------------------
\* splitByLine: the call s.createOutputFile(fileIndex) before the loop
splitByLine_Create ==
    /\ pc = "byLine_Create"
    /\ callIndex' = fileIndex
    /\ returnTo' = "byLine_Read"
    /\ pc' = "createOutputFile"
    /\ UNCHANGED <<pvars, gvars, outOfRange, cfgvars, rpos, ix, fileIndex,
                   lineCount, chunk, fileOff, byteCount, byteRemain, bufLen,
                   outputFile, fs, created, calls, openH, err, failed>>

\* the position of the first "\n" of input after position p, 0 if none
RECURSIVE NextNewline(_, _)
NextNewline(data, p) ==
    IF p >= Len(data) THEN 0
    ELSE IF data[p + 1] = "\n" THEN p + 1
    ELSE NextNewline(data, p + 1)

\* line, err := buffer.ReadBytes('\n')
splitByLine_Read ==
    /\ pc = "byLine_Read"
    /\ LET nl == NextNewline(input, rpos) IN
       \/ /\ nl > 0
          /\ chunk' = SubSeq(input, rpos + 1, nl)
          /\ rpos' = nl
          /\ pc' = "byLine_Write"
          /\ UNCHANGED <<openH, err, failed>>
       \/ /\ nl = 0                                 \* io.EOF
          /\ chunk' = SubSeq(input, rpos + 1, Len(input))
          /\ rpos' = Len(input)
          /\ pc' = "byLine_WriteLast"
          /\ UNCHANGED <<openH, err, failed>>
       \/ /\ failed' = "read"                       \* another error
          /\ Return("read")
          /\ UNCHANGED <<chunk, rpos>>
    /\ UNCHANGED <<pvars, gvars, outOfRange, cfgvars, ix, fileIndex,
                   lineCount, fileOff, byteCount, byteRemain, bufLen,
                   outputFile, fs, created, calls, callIndex, returnTo>>

\* on io.EOF: _, err = outputFile.Write(line); break; then return nil
splitByLine_WriteLast ==
    /\ pc = "byLine_WriteLast"
    /\ \/ WriteAll(chunk) /\ UNCHANGED failed
       \/ WriteShort(chunk)
    /\ Return("nil")
    /\ UNCHANGED <<pvars, gvars, outOfRange, cfgvars, rpos, ix, fileIndex,
                   lineCount, chunk, fileOff, byteCount, byteRemain, bufLen,
                   outputFile, created, calls, callIndex, returnTo>>

\* a rotation test that forgets the modulo
RotateDueAtLeast(lines, n) == lines >= n

\* lineCount%s.count == 0
RotateDue(lines, n) == lines % n = 0

\* outputFile.Write(line), lineCount++
splitByLine_Write ==
    /\ pc = "byLine_Write"
    /\ \/ /\ WriteAll(chunk)
          /\ lineCount' = lineCount + 1
          /\ pc' = IF RotateDue(lineCount + 1, count)
                   THEN "byLine_Rotate" ELSE "byLine_Read"
          /\ UNCHANGED <<openH, err, failed>>
       \/ /\ WriteShort(chunk)
          /\ Return("write")
          /\ UNCHANGED lineCount
    /\ UNCHANGED <<pvars, gvars, outOfRange, cfgvars, rpos, ix, fileIndex,
                   chunk, fileOff, byteCount, byteRemain, bufLen,
                   outputFile, created, calls, callIndex, returnTo>>

\* outputFile.Close(), fileIndex++, the call s.createOutputFile(fileIndex)
splitByLine_Rotate ==
    /\ pc = "byLine_Rotate"
    /\ openH' = openH \ {outputFile}
    /\ fileIndex' = fileIndex + 1
    /\ callIndex' = fileIndex + 1
    /\ returnTo' = "byLine_Read"
    /\ pc' = "createOutputFile"
    /\ UNCHANGED <<pvars, gvars, outOfRange, cfgvars, rpos, ix,
                   lineCount, chunk, fileOff, byteCount, byteRemain, bufLen,
                   outputFile, fs, created, calls, err, failed>>

---------------------------------------------------------------------------
\* splitByFile: io.Copy(fileBuf, s.reader) and the sizes computed from it
splitByFile_Copy ==
    /\ pc = "byFile_Copy"
    /\ \/ /\ rpos' = Len(input)
          /\ byteCount' = Len(input) \div count
          /\ byteRemain' = Len(input) % count
          /\ bufLen' = Len(input) \div count
          /\ pc' = "byFile_Read"
          /\ UNCHANGED <<openH, err, failed>>
       \/ /\ failed' = "read"
          /\ Return("read")
          /\ UNCHANGED <<rpos, byteCount, byteRemain, bufLen>>
    /\ UNCHANGED <<pvars, gvars, outOfRange, cfgvars, ix, fileIndex,
                   lineCount, chunk, fileOff, outputFile, fs, created, calls,
                   callIndex, returnTo>>

\* bytes.Buffer.Read(p) with avail unread bytes and len(p) = size: the
\* number of bytes read, -1 for io.EOF
BufferRead(avail, size) ==
    IF avail = 0 THEN (IF size = 0 THEN 0 ELSE -1)
    ELSE Min(size, avail)

\* a buffer that is never enlarged for the last file
BufferLenWithoutRemainder(index, n, cnt, remain, cur) == cur

\* len(buffer) for file index: the last file gets the remainder too
BufferLen(index, n, cnt, remain, cur) ==
    IF index = n - 1 THEN cnt + remain ELSE cur

\* the loop test i < s.count, the buffer of the last file, fileBuf.Read,
\* then the call s.createOutputFile(i)
splitByFile_Read ==
    /\ pc = "byFile_Read"
    /\ \/ /\ ix >= count
          /\ Return("nil")
          /\ UNCHANGED <<bufLen, chunk, fileOff, callIndex, returnTo>>
       \/ /\ ix < count
          /\ LET size == BufferLen(ix, count, byteCount, byteRemain, bufLen)
                 n    == BufferRead(Len(input) - fileOff, size)
             IN  /\ bufLen' = size
                 /\ \/ /\ n = -1                    \* io.EOF: break
                       /\ Return("nil")
                       /\ UNCHANGED <<chunk, fileOff, callIndex, returnTo>>
                    \/ /\ n >= 0
                       /\ chunk' = SubSeq(input, fileOff + 1, fileOff + n)
                       /\ fileOff' = fileOff + n
                       /\ callIndex' = ix
                       /\ returnTo' = "byFile_Write"
                       /\ pc' = "createOutputFile"
                       /\ UNCHANGED <<openH, err>>
    /\ UNCHANGED <<pvars, gvars, outOfRange, cfgvars, rpos, ix, fileIndex,
                   lineCount, byteCount, byteRemain, outputFile, fs,
                   created, calls, failed>>

splitByFile_Write ==
    /\ pc = "byFile_Write"
    /\ \/ /\ WriteAll(chunk)
          /\ ix' = ix + 1
          /\ pc' = "byFile_Read"
          /\ UNCHANGED <<openH, err, failed>>
       \/ /\ WriteShort(chunk)
          /\ Return("write")
          /\ UNCHANGED ix
    /\ UNCHANGED <<pvars, gvars, outOfRange, cfgvars, rpos, fileIndex,
                   lineCount, chunk, fileOff, byteCount, byteRemain, bufLen,
                   outputFile, created, calls, callIndex, returnTo>>

Next ==
    \/ Split
    \/ createOutputFile
    \/ splitByByte_Read
    \/ splitByByte_Write
    \/ splitByLine_Create
    \/ splitByLine_Read
    \/ splitByLine_WriteLast
    \/ splitByLine_Write
    \/ splitByLine_Rotate
    \/ splitByFile_Copy
    \/ splitByFile_Read
    \/ splitByFile_Write

Spec == SplitInit /\ [][Next]_vars

(***************************************************************************)
(* Claims about parseByteSize                                              *)
(***************************************************************************)
\* the multiplier each recognised unit stands for: <<base, exponent>>
UnitPower ==
    [u \in {"", "KB", "kB", "MB", "mB", "GB", "TB", "PB",
            "K", "k", "KiB", "kiB", "M", "m", "MiB", "miB",
            "G", "GiB", "T", "TiB", "P", "PiB"} |->
        CASE u = ""                            -> <<1000, 0>>
          [] u \in {"KB", "kB"}                -> <<1000, 1>>
          [] u \in {"MB", "mB"}                -> <<1000, 2>>
          [] u = "GB"                          -> <<1000, 3>>
          [] u = "TB"                          -> <<1000, 4>>
          [] u = "PB"                          -> <<1000, 5>>
          [] u \in {"K", "k", "KiB", "kiB"}    -> <<1024, 1>>
          [] u \in {"M", "m", "MiB", "miB"}    -> <<1024, 2>>
          [] u \in {"G", "GiB"}                -> <<1024, 3>>
          [] u \in {"T", "TiB"}                -> <<1024, 4>>
          [] OTHER                             -> <<1024, 5>>]

Multiplier(u) == Pow(UnitPower[u][1], UnitPower[u][2])

\* the input is a decimal magnitude that fits in 64 bits and a recognised unit
ParseCase ==
    /\ pPc = "done"
    /\ pDigits # <<>>
    /\ Le(DecValue(pDigits), MaxUint64)
    /\ pUnit \in DOMAIN UnitPower

\* C8: for a magnitude N that fits in 64 bits and a recognised unit,
\* parseByteSize returns N * multiplier when the product is at most 2^64 - 1
\* and the overflow error exactly when it is larger; a returned result
\* divided by the multiplier gives back N.
C8_OverflowExact ==
    ParseCase =>
        LET N     == DecValue(pDigits)
            mult  == Multiplier(pUnit)
            exact == Mul(N, mult)
        IN  IF Le(exact, MaxUint64)
            THEN pErr = "nil" /\ pResult = exact /\ Div(pResult, mult) = N
            ELSE pErr = "overflow"

\* an overflowing product whose low 64 bits are not below N is rejected
C8_Witness ==
    /\ ParseCase
    /\ pErr = "overflow"
    /\ Le(DecValue(pDigits), Wrap64(Mul(DecValue(pDigits), Multiplier(pUnit))))

(***************************************************************************)
(* Claims about genFileName                                                *)
(***************************************************************************)
\* the w-letter base-26 numeral of v over 'a'..'z', most significant letter
\* first, padded with 'a'
RECURSIVE NumeralFrom(_, _, _)
NumeralFrom(v, w, acc) ==
    IF w = 0 THEN acc
    ELSE NumeralFrom(DivSmall(v, 26), w - 1, <<Letter(ModSmall(v, 26))>> \o acc)

Numeral(v, w) == NumeralFrom(v, w, <<>>)

Threshold(i) == Sub(Pow(26, i), FromNat(26))

\* the i >= 1 with 26^i - 26 <= index < 26^(i+1) - 26
RECURSIVE WidthStep(_, _)
WidthStep(index, i) ==
    IF Lt(index, Threshold(i + 1)) THEN i ELSE WidthStep(index, i + 1)

DefaultedPrefix(prefix) == IF prefix = <<>> THEN <<"x">> ELSE prefix

DynamicName(prefix, index) ==
    LET i == WidthStep(index, 1)
    IN  DefaultedPrefix(prefix) \o Repeat("z", i - 1)
            \o Numeral(Sub(index, Threshold(i)), i + 1)

\* the width of the suffix under ByFiles(n)
RECURSIVE FilesWidthFrom(_, _)
FilesWidthFrom(n, w) ==
    IF Le(n, Pow(26, w)) THEN w ELSE FilesWidthFrom(n, w + 1)

FilesWidth(n) == FilesWidthFrom(n, 2)

Ord(c) == CHOOSE k \in 1..26 : Alphabet[k] = c

\* a < b as Go compares strings
RECURSIVE LexLessFrom(_, _, _)
LexLessFrom(a, b, k) ==
    IF k > Len(b) THEN FALSE
    ELSE IF k > Len(a) THEN TRUE
    ELSE IF a[k] # b[k] THEN Ord(a[k]) < Ord(b[k])
    ELSE LexLessFrom(a, b, k + 1)

LexLess(a, b) == LexLessFrom(a, b, 1)

GenCalls == {<<gIndexA, gResA>>, <<gIndexB, gResB>>}

\* C5: under ByBytes and ByLines genFileName never fails and returns the
\* prefix ("x" when empty), then i-1 letters 'z', then the (i+1)-letter
\* numeral of index - (26^i - 26), for the i with
\* 26^i - 26 <= index < 26^(i+1) - 26, whatever fileCount is.
C5_DynamicName ==
    (gPc = "done" /\ gSplitType \in {"ByBytes", "ByLines"}) =>
        \A c \in GenCalls :
            /\ c[2].err = "nil"
            /\ c[2].name = DynamicName(gPrefix, c[1])

\* C6: for a fixed policy, count and prefix, valid indices i < j get names
\* with genFileName(i) < genFileName(j) in lexicographic order.
C6_StrictlyIncreasing ==
    (/\ gPc = "done"
     /\ Lt(gIndexA, gIndexB)
     /\ gSplitType = "ByFiles" => Lt(gIndexB, gFileCount)) =>
        /\ gResA.err = "nil"
        /\ gResB.err = "nil"
        /\ LexLess(gResA.name, gResB.name)

\* C7: under ByFiles(n) genFileName fails with "invalid index" exactly when
\* index >= n, and otherwise returns the prefix ("x" when empty) and the
\* numeral of index of width 2 when n <= 26, else of the smallest width w
\* with 26^w >= n.
C7_FixedWidthName ==
    (gPc = "done" /\ gSplitType = "ByFiles") =>
        \A c \in GenCalls :
            /\ c[2].err = "invalid index" <=> Le(gFileCount, c[1])
            /\ Lt(c[1], gFileCount) =>
                  /\ c[2].err = "nil"
                  /\ c[2].name = DefaultedPrefix(gPrefix)
                                    \o Numeral(c[1], FilesWidth(gFileCount))

(***************************************************************************)
(* Claims about Splitter.Split                                             *)
(***************************************************************************)
Content(k) == fs[created[k].name]

\* the created files joined in the order of their chunk indices
RECURSIVE ConcatFrom(_, _)
ConcatFrom(k, acc) ==
    IF k > Len(created) THEN acc ELSE ConcatFrom(k + 1, acc \o Content(k))

Concat == ConcatFrom(1, <<>>)

Newlines(data) == Cardinality({k \in 1..Len(data) : data[k] = "\n"})

Done == pc = "done"

\* C1: under each policy, when Split returns without error the created
\* files, joined in chunk-index order, equal the input byte for byte.
C1_ConcatIsInput ==
    (Done /\ err = "nil") => Concat = input

\* C2: under ByBytes(n), also with a reader that delivers fewer bytes than
\* asked for, every file but the last holds exactly n bytes and no file is
\* empty.
C2_FullChunks ==
    (Done /\ splitType = "ByBytes" /\ failed = "none") =>
        \A k \in 1..Len(created) :
            /\ Len(Content(k)) >= 1
            /\ k < Len(created) => Len(Content(k)) = count

\* C3: under ByFiles(n) createOutputFile is called with the indices
\* 0, 1, ... in order, never with one >= n, and "invalid index" is never
\* returned; a run without I/O failure creates exactly n files, the first
\* n-1 of floor(S/n) bytes and the last of floor(S/n) + S mod n bytes.
C3_FilesExact ==
    splitType = "ByFiles" =>
        /\ err # "invalid index"
        /\ \A k \in 1..Len(calls) : calls[k] = k - 1 /\ calls[k] < count
        /\ (Done /\ failed = "none") =>
              /\ Len(created) = count
              /\ \A k \in 1..count :
                    /\ created[k].index = k - 1
                    /\ Len(Content(k)) =
                          IF k < count THEN Len(input) \div count
                          ELSE (Len(input) \div count) + (Len(input) % count)

\* a completed ByFiles run on a non-empty input shorter than n
C3_Witness ==
    /\ Done /\ splitType = "ByFiles" /\ failed = "none"
    /\ 0 < Len(input) /\ Len(input) < count
    /\ Len(created) = count

\* C4: under ByLines(n) file 0 is created before anything is read, and a
\* run without I/O failure on an input with L newlines creates
\* floor(L/n) + 1 files: the files 0..floor(L/n)-1 hold n lines each, and
\* the last holds the remaining L mod n lines and the unterminated tail.
C4_LinesExact ==
    splitType = "ByLines" =>
        /\ rpos > 0 => Len(created) >= 1
        /\ (Done /\ failed = "none") =>
              LET L == Newlines(input) IN
              /\ Len(created) = (L \div count) + 1
              /\ \A k \in 1..(L \div count) :
                    /\ Newlines(Content(k)) = count
                    /\ Content(k)[Len(Content(k))] = "\n"
              /\ Newlines(Content(Len(created))) = L % count
              /\ Concat = input

\* a completed ByLines run on an input that ends on an n-th newline: the
\* last file is empty
C4_Witness ==
    /\ Done /\ splitType = "ByLines" /\ failed = "none"
    /\ Newlines(input) >= count
    /\ Newlines(input) % count = 0
    /\ input[Len(input)] = "\n"
    /\ Len(created) >= 2
    /\ Content(Len(created)) = <<>>

\* C9: when a creation of or a write to an output file fails, Split does
\* nothing more and returns an error; it returns nil only if every create
\* and every write succeeded.
C9_FailureIsReturned ==
    /\ failed \in {"create", "write"} => Done
    /\ (Done /\ err = "nil") => failed \notin {"create", "write"}

\* C10: at most one output file handle is open at any time, and none is
\* open when Split has returned.
C10_OneOpenHandle ==
    /\ Cardinality(openH) <= 1
    /\ Done => openH = {}

\* without a failed read, create or write the files join to the input
ConcatIsInputWithoutFailure ==
    (Done /\ failed = "none") => Concat = input

====
